---------------------------- MODULE Spec2Model ----------------------------
(***************************************************************************)
(* Model of the rmdb debugger session (src/src/bin/debugger.rs): the       *)
(* Debugger struct, its private methods and the command dispatcher         *)
(* Debugger::execute.  The Reustmann engine (Interpreter, Program) is a    *)
(* library that the debugger only calls; it is modelled from the           *)
(* specification's description of the Execution Engine.                    *)
(***************************************************************************)
EXTENDS Integers, Sequences, FiniteSets, TLC

VARIABLES
    interpreter,    \* Debugger.interpreter : Option<Interpreter>
    program_name,   \* Debugger.program_name : Option<String>
    statement,      \* Debugger.statement : Option<Statement>
    panicked,       \* TRUE once execute has aborted the process
    last,           \* history: the command execute ran last, and the session before it
    calls,          \* history: the method calls that command made, in order
    render,         \* one call of display_infos: its arguments and what it printed
    run             \* one call of Debugger::steps, statement by statement

vars == <<interpreter, program_name, statement, panicked, last, calls, render, run>>

----------------------------------------------------------------------------
(* Bounds of the model *)

\* largest arch_length the operator types in a SetInterpreter command
MaxLen == 3

\* largest step count the operator types in a Step command
MaxSteps == 4

\* longest memory handed to display_infos
MaxMem == 3

----------------------------------------------------------------------------
(* Option and Result *)

None == <<>>

Some(x) == <<x>>

Unwrap(o) == o[1]

Ok(v) == [ok |-> TRUE, val |-> <<v>>, err |-> ""]

Err(e) == [ok |-> FALSE, val |-> <<>>, err |-> e]

\* DebuggerError::NoInterpreter
NoInterpreter == "NoInterpreter"

\* DebuggerError::InterpreterCreation(_)
InterpreterCreation == "InterpreterCreation"

----------------------------------------------------------------------------
(* The engine: reustmann::{Interpreter, Program, Statement, DebugInfos} *)

\* op-codes (bytes) the model's programs are made of
NOP == 0

HALT == 1

OUT == 2

NL == 3

RESET == 4

DEFAULT_ARCH_WIDTH == 8

Statement(op_code, is_success) == [op_code |-> op_code, is_success |-> is_success]

\* Interpreter::new: rejects a zero length and a zero width
Interpreter_new(arch_length, arch_width) ==
    IF arch_length = 0 THEN Err("InvalidArchLength")
    ELSE IF arch_width = 0 THEN Err("InvalidArchWidth")
    ELSE Ok([arch_length |-> arch_length, arch_width |-> arch_width,
             memory |-> [i \in 1..arch_length |-> NOP],
             pc |-> 0, sp |-> 0, nz |-> FALSE])

\* Interpreter::copy_program: the image's bytes from address 0, the rest cleared
Interpreter_copy_program(it, program) ==
    [it EXCEPT !.memory = [i \in 1..it.arch_length |->
                              IF i <= Len(program) THEN program[i] ELSE NOP]]

\* Interpreter::reset: pc, sp and nz to their initial values
Interpreter_reset(it) ==
    [it |-> [it EXCEPT !.pc = 0, !.sp = 0, !.nz = FALSE],
     statement |-> Statement(RESET, TRUE)]

\* Interpreter::step: one instruction, the one at pc; io counts the bytes it
\* moved on the input/output streams
Interpreter_step(it) ==
    LET op == it.memory[it.pc + 1]
        next == (it.pc + 1) % it.arch_length
    IN  CASE op = HALT ->
               [it |-> it, statement |-> Statement(HALT, TRUE), io |-> 0]
          [] op = OUT ->
               [it |-> [it EXCEPT !.pc = next,
                                  !.sp = (it.sp + it.arch_length - 1) % it.arch_length,
                                  !.nz = TRUE],
                statement |-> Statement(OUT, TRUE), io |-> 1]
          [] op = RESET ->
               [it |-> Interpreter_reset(it).it,
                statement |-> Statement(RESET, TRUE), io |-> 0]
          [] OTHER ->
               [it |-> [it EXCEPT !.pc = next],
                statement |-> Statement(op, op = NOP), io |-> 0]

\* Interpreter::debug_infos
Interpreter_debug_infos(it) ==
    [memory |-> it.memory, pc |-> it.pc, sp |-> it.sp, nz |-> it.nz]

\* the program files of the working directory: name -> bytes (no entry: the
\* file cannot be opened)
Files ==
    [empty |-> <<>>,
     loop  |-> <<OUT, NL, NOP>>,
     halt  |-> <<NOP, NL, OUT, HALT>>,
     stop  |-> <<HALT>>]

FileNames == {"empty", "loop", "halt", "stop", "missing"}

RECURSIVE DropNewlines(_)
DropNewlines(bytes) ==
    IF bytes = <<>> THEN <<>>
    ELSE IF Head(bytes) = NL THEN DropNewlines(Tail(bytes))
    ELSE <<Head(bytes)>> \o DropNewlines(Tail(bytes))

\* Program::new(&mut file, ignore_nl)
Program_new(bytes, ignore_nl) == IF ignore_nl THEN DropNewlines(bytes) ELSE bytes

\* create_program_from_file: File::open, then Program::new
create_program_from_file(filename, ignore_nl) ==
    IF filename \notin DOMAIN Files THEN Err("entity not found")
    ELSE Ok(Program_new(Files[filename], ignore_nl))

----------------------------------------------------------------------------
(* The Debugger: its fields as one record, and its methods.  A method maps *)
(* the session it is called on to the session it leaves and its result.    *)

\* the session held in the three fields of the Debugger struct
Session == [interpreter |-> interpreter, program_name |-> program_name,
            statement |-> statement]

\* Debugger::new
Debugger_new == [interpreter |-> None, program_name |-> None, statement |-> None]

\* set_interpreter, had it stored the outcome of Interpreter::new before
\* looking at it: a rejected geometry would drop the machine held
set_interpreter_storing_first(d, arch_length, arch_width) ==
    LET made == Interpreter_new(arch_length, arch_width)
    IN  IF ~made.ok
        THEN [d |-> [d EXCEPT !.interpreter = None], res |-> Err(InterpreterCreation)]
        ELSE [d |-> [d EXCEPT !.interpreter = Some(Unwrap(made.val))],
              res |-> Ok(<<>>)]

\* Debugger::set_interpreter
set_interpreter(d, arch_length, arch_width) ==
    LET made == Interpreter_new(arch_length, arch_width)
    IN  IF ~made.ok THEN [d |-> d, res |-> Err(InterpreterCreation)]
        ELSE [d |-> [d EXCEPT !.interpreter = Some(Unwrap(made.val))],
              res |-> Ok(<<>>)]

\* unset_interpreter, had it not looked for a machine first
unset_interpreter_unchecked(d) ==
    [d |-> [d EXCEPT !.interpreter = None], res |-> Ok(<<>>)]

\* Debugger::unset_interpreter
unset_interpreter(d) ==
    IF d.interpreter = None THEN [d |-> d, res |-> Err(NoInterpreter)]
    ELSE [d |-> [d EXCEPT !.interpreter = None], res |-> Ok(<<>>)]

\* Debugger::interpreter
get_interpreter(d) ==
    IF d.interpreter = None THEN [d |-> d, res |-> Err(NoInterpreter)]
    ELSE [d |-> d, res |-> Ok(Unwrap(d.interpreter))]

\* copy_program_and_reset, had it refused an image longer than the memory
copy_program_and_reset_rejecting_long(d, program) ==
    IF d.interpreter = None THEN [d |-> d, res |-> Err(NoInterpreter)]
    ELSE IF Len(program) > Unwrap(d.interpreter).arch_length
    THEN [d |-> d, res |-> Err("ProgramTooLong")]
    ELSE LET copied == Interpreter_copy_program(Unwrap(d.interpreter), program)
         IN  [d |-> [d EXCEPT !.interpreter = Some(Interpreter_reset(copied).it)],
              res |-> Ok(<<>>)]

\* Debugger::copy_program_and_reset
copy_program_and_reset(d, program) ==
    IF d.interpreter = None THEN [d |-> d, res |-> Err(NoInterpreter)]
    ELSE LET copied == Interpreter_copy_program(Unwrap(d.interpreter), program)
         IN  [d |-> [d EXCEPT !.interpreter = Some(Interpreter_reset(copied).it)],
              res |-> Ok(<<>>)]

\* Debugger::reset
reset(d) ==
    IF d.interpreter = None THEN [d |-> d, res |-> Err(NoInterpreter)]
    ELSE LET r == Interpreter_reset(Unwrap(d.interpreter))
         IN  [d |-> [d EXCEPT !.interpreter = Some(r.it)], res |-> Ok(r.statement)]

\* Debugger::debug_infos
debug_infos(d) ==
    IF d.interpreter = None THEN [d |-> d, res |-> Err(NoInterpreter)]
    ELSE [d |-> d, res |-> Ok(Interpreter_debug_infos(Unwrap(d.interpreter)))]

\* the loop of steps, had `executed = i + 1` come before the match on HALT
RECURSIVE steps_loop_counting_halt(_, _, _, _, _, _, _)
steps_loop_counting_halt(it, i, n, stat, executed, engine_steps, io_ops) ==
    IF i >= n
    THEN [it |-> it, statement |-> stat, executed |-> executed,
          engine_steps |-> engine_steps, io_ops |-> io_ops]
    ELSE LET r == Interpreter_step(it)
         IN  IF r.statement.op_code = HALT
             THEN [it |-> r.it, statement |-> Some(r.statement),
                   executed |-> i + 1,
                   engine_steps |-> engine_steps + 1, io_ops |-> io_ops + r.io]
             ELSE steps_loop_counting_halt(r.it, i + 1, n, Some(r.statement), i + 1,
                                           engine_steps + 1, io_ops + r.io)

\* the loop of steps, had the HALT arm been `continue` instead of `break`
RECURSIVE steps_loop_without_break(_, _, _, _, _, _, _)
steps_loop_without_break(it, i, n, stat, executed, engine_steps, io_ops) ==
    IF i >= n
    THEN [it |-> it, statement |-> stat, executed |-> executed,
          engine_steps |-> engine_steps, io_ops |-> io_ops]
    ELSE LET r == Interpreter_step(it)
         IN  steps_loop_without_break(
                 r.it, i + 1, n, Some(r.statement),
                 IF r.statement.op_code = HALT THEN executed ELSE i + 1,
                 engine_steps + 1, io_ops + r.io)

\* the loop of steps, had it counted `executed = i`
RECURSIVE steps_loop_off_by_one(_, _, _, _, _, _, _)
steps_loop_off_by_one(it, i, n, stat, executed, engine_steps, io_ops) ==
    IF i >= n
    THEN [it |-> it, statement |-> stat, executed |-> executed,
          engine_steps |-> engine_steps, io_ops |-> io_ops]
    ELSE LET r == Interpreter_step(it)
         IN  IF r.statement.op_code = HALT
             THEN [it |-> r.it, statement |-> Some(r.statement),
                   executed |-> executed,
                   engine_steps |-> engine_steps + 1, io_ops |-> io_ops + r.io]
             ELSE steps_loop_off_by_one(r.it, i + 1, n, Some(r.statement), i,
                                        engine_steps + 1, io_ops + r.io)

\* the loop of steps, had it tested the count after the body (`0...steps`)
RECURSIVE steps_loop_inclusive(_, _, _, _, _, _, _)
steps_loop_inclusive(it, i, n, stat, executed, engine_steps, io_ops) ==
    IF i > n
    THEN [it |-> it, statement |-> stat, executed |-> executed,
          engine_steps |-> engine_steps, io_ops |-> io_ops]
    ELSE LET r == Interpreter_step(it)
         IN  IF r.statement.op_code = HALT
             THEN [it |-> r.it, statement |-> Some(r.statement),
                   executed |-> executed,
                   engine_steps |-> engine_steps + 1, io_ops |-> io_ops + r.io]
             ELSE steps_loop_inclusive(r.it, i + 1, n, Some(r.statement), i + 1,
                                       engine_steps + 1, io_ops + r.io)

\* the loop of steps, had it kept the statement only of a step that did not halt
RECURSIVE steps_loop_forgetting_halt(_, _, _, _, _, _, _)
steps_loop_forgetting_halt(it, i, n, stat, executed, engine_steps, io_ops) ==
    IF i >= n
    THEN [it |-> it, statement |-> stat, executed |-> executed,
          engine_steps |-> engine_steps, io_ops |-> io_ops]
    ELSE LET r == Interpreter_step(it)
         IN  IF r.statement.op_code = HALT
             THEN [it |-> r.it, statement |-> stat,
                   executed |-> executed,
                   engine_steps |-> engine_steps + 1, io_ops |-> io_ops + r.io]
             ELSE steps_loop_forgetting_halt(r.it, i + 1, n, Some(r.statement), i + 1,
                                             engine_steps + 1, io_ops + r.io)

\* the loop of Debugger::steps, from iteration i on: `for i in 0..steps`.
\* engine_steps counts the calls of Interpreter::step, io_ops the bytes they
\* moved on the streams.
RECURSIVE steps_loop(_, _, _, _, _, _, _)
steps_loop(it, i, n, stat, executed, engine_steps, io_ops) ==
    IF i >= n
    THEN [it |-> it, statement |-> stat, executed |-> executed,
          engine_steps |-> engine_steps, io_ops |-> io_ops]
    ELSE LET r == Interpreter_step(it)
         IN  IF r.statement.op_code = HALT
             THEN [it |-> r.it, statement |-> Some(r.statement),
                   executed |-> executed,
                   engine_steps |-> engine_steps + 1, io_ops |-> io_ops + r.io]
             ELSE steps_loop(r.it, i + 1, n, Some(r.statement), i + 1,
                             engine_steps + 1, io_ops + r.io)

\* Debugger::steps
steps(d, n) ==
    IF d.interpreter = None
    THEN [d |-> d, res |-> Err(NoInterpreter), engine_steps |-> 0, io_ops |-> 0]
    ELSE LET r == steps_loop(Unwrap(d.interpreter), 0, n, None, 0, 0, 0)
         IN  [d |-> [d EXCEPT !.interpreter = Some(r.it)],
              res |-> Ok([executed |-> r.executed,
                          debug |-> Interpreter_debug_infos(r.it),
                          statement |-> r.statement]),
              engine_steps |-> r.engine_steps, io_ops |-> r.io_ops]

----------------------------------------------------------------------------
(* Debugger::execute, one operator per arm of its match.  Each maps the    *)
(* session to [d: the session left, calls: the method calls made, in       *)
(* order, panicked: whether the arm aborted the process].                  *)

\* the record of one method call: the session before and after it, its
\* argument and result, and (for steps) the engine steps and stream bytes
Call(op, arg, before, r, engine_steps, io_ops) ==
    [op |-> op, arg |-> <<arg>>, before |-> before, after |-> r.d, res |-> r.res,
     engine_steps |-> engine_steps, io_ops |-> io_ops]

\* Command::UnsetInterpreter
execute_UnsetInterpreter(d) ==
    LET r == unset_interpreter(d)
    IN  [d |-> r.d, calls |-> <<Call("unset_interpreter", <<>>, d, r, 0, 0)>>,
         panicked |-> FALSE]

\* Command::InfosInterpreter
execute_InfosInterpreter(d) ==
    LET r == get_interpreter(d)
    IN  [d |-> r.d, calls |-> <<Call("interpreter", <<>>, d, r, 0, 0)>>,
         panicked |-> FALSE]

\* Command::SetInterpreter{ arch_length, arch_width }
execute_SetInterpreter(d, arch_length, arch_width) ==
    LET r == set_interpreter(d, arch_length, arch_width)
        c == Call("set_interpreter", <<arch_length, arch_width>>, d, r, 0, 0)
        q == get_interpreter(r.d)
    IN  IF r.res.ok
        THEN [d |-> q.d, calls |-> <<c, Call("interpreter", <<>>, r.d, q, 0, 0)>>,
              panicked |-> FALSE]
        ELSE [d |-> r.d, calls |-> <<c>>, panicked |-> FALSE]

\* Command::Infos
execute_Infos(d) ==
    LET r == debug_infos(d)
    IN  [d |-> r.d, calls |-> <<Call("debug_infos", <<>>, d, r, 0, 0)>>,
         panicked |-> FALSE]

\* the arm `Err(_)` of Command::Copy, had it created the interpreter and
\* left out the second copy_program_and_reset
execute_Copy_retry_without_reload(d, program, first) ==
    LET s  == set_interpreter(d, Len(program), DEFAULT_ARCH_WIDTH)
        cs == Call("set_interpreter", <<Len(program), DEFAULT_ARCH_WIDTH>>, d, s, 0, 0)
        q  == get_interpreter(s.d)
        cq == IF s.res.ok THEN <<Call("interpreter", <<>>, s.d, q, 0, 0)>> ELSE <<>>
        g  == debug_infos(q.d)
    IN  [d |-> g.d,
         calls |-> first \o <<cs>> \o cq \o <<Call("debug_infos", <<>>, q.d, g, 0, 0)>>,
         panicked |-> FALSE]

\* Command::Copy(ref filename, ignore_nl), the arm `Err(_)` of its inner match:
\* no load was possible, so create an interpreter as long as the program and
\* load again, unwrapping the result
execute_Copy_retry(d, program, first) ==
    LET s  == set_interpreter(d, Len(program), DEFAULT_ARCH_WIDTH)
        cs == Call("set_interpreter", <<Len(program), DEFAULT_ARCH_WIDTH>>, d, s, 0, 0)
        q  == get_interpreter(s.d)
        cq == IF s.res.ok THEN <<Call("interpreter", <<>>, s.d, q, 0, 0)>> ELSE <<>>
        c2 == copy_program_and_reset(q.d, program)
        cc == Call("copy_program_and_reset", program, q.d, c2, 0, 0)
        g  == debug_infos(c2.d)
    IN  IF ~c2.res.ok
        THEN [d |-> c2.d, calls |-> first \o <<cs>> \o cq \o <<cc>>, panicked |-> TRUE]
        ELSE [d |-> g.d,
              calls |-> first \o <<cs>> \o cq
                            \o <<cc, Call("debug_infos", <<>>, c2.d, g, 0, 0)>>,
              panicked |-> FALSE]

\* Command::Copy, had it kept the statement Interpreter::reset returns
\* inside copy_program_and_reset
execute_Copy_keeping_reset_statement(d, filename, ignore_nl) ==
    LET named == [d EXCEPT !.program_name = Some(filename)]
        p  == create_program_from_file(filename, ignore_nl)
        cp == [op |-> "create_program_from_file", arg |-> <<filename, ignore_nl>>,
               before |-> named, after |-> named, res |-> p,
               engine_steps |-> 0, io_ops |-> 0]
    IN  IF ~p.ok THEN [d |-> named, calls |-> <<cp>>, panicked |-> FALSE]
        ELSE LET program == Unwrap(p.val)
                 c1 == copy_program_and_reset(named, program)
                 cc == Call("copy_program_and_reset", program, named, c1, 0, 0)
                 kept == [c1.d EXCEPT !.statement = Some(Statement(RESET, TRUE))]
                 g  == debug_infos(kept)
             IN  IF ~c1.res.ok THEN execute_Copy_retry(c1.d, program, <<cp, cc>>)
                 ELSE [d |-> g.d,
                       calls |-> <<cp, cc, Call("debug_infos", <<>>, kept, g, 0, 0)>>,
                       panicked |-> FALSE]

\* Command::Copy(ref filename, ignore_nl)
execute_Copy(d, filename, ignore_nl) ==
    LET named == [d EXCEPT !.program_name = Some(filename)]
        p  == create_program_from_file(filename, ignore_nl)
        cp == [op |-> "create_program_from_file", arg |-> <<filename, ignore_nl>>,
               before |-> named, after |-> named, res |-> p,
               engine_steps |-> 0, io_ops |-> 0]
    IN  IF ~p.ok THEN [d |-> named, calls |-> <<cp>>, panicked |-> FALSE]
        ELSE LET program == Unwrap(p.val)
                 c1 == copy_program_and_reset(named, program)
                 cc == Call("copy_program_and_reset", program, named, c1, 0, 0)
                 g  == debug_infos(c1.d)
             IN  IF ~c1.res.ok THEN execute_Copy_retry(c1.d, program, <<cp, cc>>)
                 ELSE [d |-> g.d,
                       calls |-> <<cp, cc, Call("debug_infos", <<>>, c1.d, g, 0, 0)>>,
                       panicked |-> FALSE]

\* Command::Reset
execute_Reset(d) ==
    LET r == reset(d)
        c == Call("reset", <<>>, d, r, 0, 0)
        kept == [r.d EXCEPT !.statement = Some(Unwrap(r.res.val))]
        g == debug_infos(kept)
    IN  IF ~r.res.ok THEN [d |-> r.d, calls |-> <<c>>, panicked |-> FALSE]
        ELSE [d |-> g.d, calls |-> <<c, Call("debug_infos", <<>>, kept, g, 0, 0)>>,
              panicked |-> FALSE]

\* Command::Step, had it stored only a statement that is present
execute_Step_keeping_statement(d, to_execute) ==
    LET r == steps(d, to_execute)
        c == Call("steps", to_execute, d, r, r.engine_steps, r.io_ops)
    IN  IF ~r.res.ok THEN [d |-> r.d, calls |-> <<c>>, panicked |-> FALSE]
        ELSE [d |-> [r.d EXCEPT !.statement =
                        IF Unwrap(r.res.val).statement = None THEN d.statement
                        ELSE Unwrap(r.res.val).statement],
              calls |-> <<c>>, panicked |-> FALSE]

\* Command::Step(to_execute)
execute_Step(d, to_execute) ==
    LET r == steps(d, to_execute)
        c == Call("steps", to_execute, d, r, r.engine_steps, r.io_ops)
    IN  IF ~r.res.ok THEN [d |-> r.d, calls |-> <<c>>, panicked |-> FALSE]
        ELSE [d |-> [r.d EXCEPT !.statement = Unwrap(r.res.val).statement],
              calls |-> <<c>>, panicked |-> FALSE]

----------------------------------------------------------------------------
(* The session as a state machine: the read-eval-print loop hands execute  *)
(* one command at a time, until a command aborts the process.              *)

\* no display_infos call in progress
NoRender ==
    [done |-> FALSE, debug |-> [memory |-> <<>>, pc |-> 0, sp |-> 0, nz |-> FALSE],
     out |-> [panic |-> FALSE, underflow |-> FALSE, rows |-> <<>>]]

\* no steps call in progress
NoRun ==
    [pc |-> "idle", start |-> None, steps |-> 0, i |-> 0, statement |-> None,
     executed |-> 0, engine_steps |-> 0, result |-> None]

Init ==
    /\ interpreter = Debugger_new.interpreter
    /\ program_name = Debugger_new.program_name
    /\ statement = Debugger_new.statement
    /\ panicked = FALSE
    /\ last = [cmd |-> "new", arg |-> <<>>, pre |-> Debugger_new]
    /\ calls = <<>>
    /\ render = NoRender
    /\ run = NoRun

\* execute(command) as one step: r is what the command's arm computes
Executed(cmd, arg, r) ==
    /\ ~panicked
    /\ interpreter' = r.d.interpreter
    /\ program_name' = r.d.program_name
    /\ statement' = r.d.statement
    /\ panicked' = r.panicked
    /\ last' = [cmd |-> cmd, arg |-> arg, pre |-> Session]
    /\ calls' = r.calls
    /\ UNCHANGED <<render, run>>

UnsetInterpreter ==
    Executed("UnsetInterpreter", <<>>, execute_UnsetInterpreter(Session))

InfosInterpreter ==
    Executed("InfosInterpreter", <<>>, execute_InfosInterpreter(Session))

SetInterpreter ==
    \E arch_length \in 0..MaxLen, arch_width \in {0, DEFAULT_ARCH_WIDTH} :
        Executed("SetInterpreter", <<arch_length, arch_width>>,
                 execute_SetInterpreter(Session, arch_length, arch_width))

Infos ==
    Executed("Infos", <<>>, execute_Infos(Session))

Copy ==
    \E filename \in FileNames, ignore_nl \in BOOLEAN :
        Executed("Copy", <<filename, ignore_nl>>,
                 execute_Copy(Session, filename, ignore_nl))

Reset ==
    Executed("Reset", <<>>, execute_Reset(Session))

Step ==
    \E to_execute \in 0..MaxSteps :
        Executed("Step", <<to_execute>>, execute_Step(Session, to_execute))

Next ==
    \/ UnsetInterpreter
    \/ InfosInterpreter
    \/ SetInterpreter
    \/ Infos
    \/ Copy
    \/ Reset
    \/ Step

Spec == Init /\ [][Next]_vars

----------------------------------------------------------------------------
(* display_infos (src/src/bin/main.rs): the memory window, ten rows of a   *)
(* pc lane walking forward and an sp lane walking backward.  The iterator  *)
(* adaptors are modelled by what they yield.                               *)

\* `let lines = 10;`
lines == 10

\* the width of usize on the target
USIZE_BITS == 64

\* the bytes of the memories displayed
Bytes == {NOP, HALT, OUT}

Min(a, b) == IF a <= b THEN a ELSE b

\* 2^bits modulo m, for m > 0
RECURSIVE TwoPowMod(_, _)
TwoPowMod(bits, m) == IF bits = 0 THEN 1 % m ELSE (2 * TwoPowMod(bits - 1, m)) % m

\* a usize as computed: `value` is the mathematical result, `wrapped` says
\* it was below zero, so that the usize held is 2^USIZE_BITS + value
Usize(value) == [value |-> value, wrapped |-> value < 0]

\* the usize of u, modulo m > 0
UsizeMod(u, m) ==
    IF u.wrapped THEN (TwoPowMod(USIZE_BITS, m) + (u.value % m)) % m
    ELSE u.value % m

\* .iter().enumerate() : the pairs (index, element)
Enumerate(s) == [i \in 1..Len(s) |-> <<i - 1, s[i]>>]

\* .rev()
Rev(s) == [i \in 1..Len(s) |-> s[Len(s) + 1 - i]]

\* the lane that reads the reversed memory forward instead of backward
CycleSkipTake_off_by_one(s, skip, take) ==
    IF Len(s) = 0 THEN <<>>
    ELSE [j \in 1..take |-> s[((UsizeMod(skip, Len(s)) + j) % Len(s)) + 1]]

\* .cycle().skip(skip).take(take) : nothing of an empty sequence, else the
\* elements at skip, skip + 1, ... of the sequence repeated for ever
CycleSkipTake(s, skip, take) ==
    IF Len(s) = 0 THEN <<>>
    ELSE [j \in 1..take |-> s[((UsizeMod(skip, Len(s)) + j - 1) % Len(s)) + 1]]

\* a.zip(b)
Zip(a, b) == [i \in 1..Min(Len(a), Len(b)) |-> <<a[i], b[i]>>]

\* the rows display_infos prints for one (instrs, stack) pair of lanes: the
\* first carries the "pc"/"sp" marks
Rows(pc_sp) ==
    [i \in 1..Len(pc_sp) |->
        [first    |-> i = 1,
         idx      |-> pc_sp[i][1][1],
         pc_addr  |-> pc_sp[i][1][2][1],
         op_code  |-> pc_sp[i][1][2][2],
         sp_addr  |-> pc_sp[i][2][1],
         value    |-> pc_sp[i][2][2]]]

\* display_infos(debug_infos, statement); overflow_checks is the build's
\* setting: with it `memory.len() - sp - 1` below zero panics, without it
\* the usize wraps
display_infos(infos, overflow_checks) ==
    LET memory == infos.memory
        pc     == infos.pc
        sp     == infos.sp
        instrs == Enumerate(CycleSkipTake(Enumerate(memory), Usize(pc), lines))
        start  == Usize(Len(memory) - sp - 1)
        stack  == CycleSkipTake(Rev(Enumerate(memory)), start, lines)
    IN  IF start.wrapped /\ overflow_checks
        THEN [panic |-> TRUE, underflow |-> TRUE, rows |-> <<>>]
        ELSE [panic |-> FALSE, underflow |-> start.wrapped,
              rows |-> Rows(Zip(instrs, stack))]

\* the memories of length n over Bytes
Memories(n) == [1..n -> Bytes]

\* the snapshots display_infos is handed: a memory of up to MaxMem bytes with
\* pc and sp inside it, or the empty memory
DebugInfos ==
    {[memory |-> m, pc |-> pc, sp |-> sp, nz |-> FALSE] :
        m \in UNION {Memories(n) : n \in 0..MaxMem}, pc \in 0..(MaxMem - 1),
        sp \in 0..(MaxMem - 1)}

RenderInit ==
    /\ interpreter = Debugger_new.interpreter
    /\ program_name = Debugger_new.program_name
    /\ statement = Debugger_new.statement
    /\ panicked = FALSE
    /\ last = [cmd |-> "new", arg |-> <<>>, pre |-> Debugger_new]
    /\ calls = <<>>
    /\ run = NoRun
    /\ \E debug \in DebugInfos :
          /\ \/ Len(debug.memory) = 0
             \/ debug.pc < Len(debug.memory) /\ debug.sp < Len(debug.memory)
          /\ render = [NoRender EXCEPT !.debug = debug]

\* one call of display_infos
Display ==
    /\ ~render.done
    /\ \E overflow_checks \in BOOLEAN :
          render' = [render EXCEPT !.done = TRUE,
                                   !.out = display_infos(render.debug, overflow_checks)]
    /\ UNCHANGED <<interpreter, program_name, statement, panicked, last, calls, run>>

RenderNext == Display

RenderSpec == RenderInit /\ [][RenderNext]_vars

----------------------------------------------------------------------------
(* Debugger::steps, statement by statement: one call, from its entry to    *)
(* its return, on a machine the session can hold.  `run` holds the call's  *)
(* locals; the engine steps act on the interpreter field in place.         *)

\* the engine after j steps from `it`
RECURSIVE EngineAfter(_, _)
EngineAfter(it, j) ==
    IF j = 0 THEN it ELSE Interpreter_step(EngineAfter(it, j - 1)).it

\* the engine after SetInterpreter(len, default width), Copy(file, nl)
Loaded(len, file, nl) ==
    Interpreter_reset(
        Interpreter_copy_program(Unwrap(Interpreter_new(len, DEFAULT_ARCH_WIDTH).val),
                                 Program_new(Files[file], nl))).it

\* the machines a steps call can find: a loaded program, run for some steps
RunMachines ==
    {EngineAfter(Loaded(len, file, nl), j) :
        len \in 1..MaxLen, file \in DOMAIN Files, nl \in BOOLEAN, j \in 0..MaxSteps}

RunInit ==
    /\ interpreter \in {None} \cup {Some(m) : m \in RunMachines}
    /\ program_name = Debugger_new.program_name
    /\ statement = Debugger_new.statement
    /\ panicked = FALSE
    /\ last = [cmd |-> "new", arg |-> <<>>, pre |-> Debugger_new]
    /\ calls = <<>>
    /\ render = NoRender
    /\ \E n \in 0..MaxSteps :
          run = [NoRun EXCEPT !.pc = "call", !.start = interpreter, !.steps = n]

\* `if let Some(ref mut interpreter) = self.interpreter`, and the two lets
steps_call ==
    /\ run.pc = "call"
    /\ run' = IF interpreter = None
              THEN [run EXCEPT !.pc = "returned", !.result = Some(Err(NoInterpreter))]
              ELSE [run EXCEPT !.pc = "for", !.i = 0, !.statement = None,
                               !.executed = 0]
    /\ UNCHANGED <<interpreter, program_name, statement, panicked, last, calls, render>>

\* one iteration of the for loop, had it not moved on to the next i
steps_iterate_not_advancing ==
    /\ run.pc = "for"
    /\ run.i < run.steps
    /\ LET r == Interpreter_step(Unwrap(interpreter))
       IN  /\ interpreter' = Some(r.it)
           /\ run' = IF r.statement.op_code = HALT
                     THEN [run EXCEPT !.pc = "after",
                                      !.statement = Some(r.statement),
                                      !.engine_steps = @ + 1]
                     ELSE [run EXCEPT !.statement = Some(r.statement),
                                      !.engine_steps = @ + 1,
                                      !.executed = run.i + 1]
    /\ UNCHANGED <<program_name, statement, panicked, last, calls, render>>

\* one iteration of `for i in 0..steps`: a step, then break on HALT or count
steps_iterate ==
    /\ run.pc = "for"
    /\ run.i < run.steps
    /\ LET r == Interpreter_step(Unwrap(interpreter))
       IN  /\ interpreter' = Some(r.it)
           /\ run' = IF r.statement.op_code = HALT
                     THEN [run EXCEPT !.pc = "after",
                                      !.statement = Some(r.statement),
                                      !.engine_steps = @ + 1]
                     ELSE [run EXCEPT !.statement = Some(r.statement),
                                      !.engine_steps = @ + 1,
                                      !.executed = run.i + 1,
                                      !.i = run.i + 1]
    /\ UNCHANGED <<program_name, statement, panicked, last, calls, render>>

\* the range 0..steps is exhausted
steps_exhausted ==
    /\ run.pc = "for"
    /\ run.i >= run.steps
    /\ run' = [run EXCEPT !.pc = "after"]
    /\ UNCHANGED <<interpreter, program_name, statement, panicked, last, calls, render>>

\* `Ok((executed, interpreter.debug_infos(), statement))`
steps_return ==
    /\ run.pc = "after"
    /\ run' = [run EXCEPT
                  !.pc = "returned",
                  !.result = Some(Ok([executed |-> run.executed,
                                      debug |-> Interpreter_debug_infos(Unwrap(interpreter)),
                                      statement |-> run.statement]))]
    /\ UNCHANGED <<interpreter, program_name, statement, panicked, last, calls, render>>

RunNext ==
    \/ steps_call
    \/ steps_iterate
    \/ steps_exhausted
    \/ steps_return

\* the call is one thread of control: while a statement is left it runs
RunSpec == RunInit /\ [][RunNext]_vars /\ WF_vars(RunNext)

----------------------------------------------------------------------------
(* What the properties below read off the history *)

\* the statement the k-th step from `it` returns
StatementOfStep(it, k) == Interpreter_step(EngineAfter(it, k - 1)).statement

\* the k-th instruction run from `it` is the first that returns the halt op-code
HaltsFirstAt(it, k) ==
    /\ StatementOfStep(it, k).op_code = HALT
    /\ \A j \in 1..(k - 1) : StatementOfStep(it, j).op_code # HALT

\* the calls of Debugger::steps the last command made on an existing machine
StepsCalls ==
    {i \in DOMAIN calls : calls[i].op = "steps" /\ calls[i].before.interpreter # None}

\* the engine a call started from, its argument and what it returned
EngineBefore(c) == Unwrap(c.before.interpreter)

Requested(c) == Unwrap(c.arg)

Returned(c) == Unwrap(c.res.val)

\* the methods that need a machine
NeedMachine ==
    {"unset_interpreter", "interpreter", "copy_program_and_reset", "reset", "steps",
     "debug_infos"}

----------------------------------------------------------------------------
(* C1 *)

\* C1: with no machine, unset_interpreter, interpreter, copy_program_and_reset,
\* reset, steps and debug_infos each return NoInterpreter and leave the session as it was;
\* steps then makes no engine step and moves no byte on the streams; and the
\* commands that only make such a call leave the session unchanged.
C1_NoMachineFailsCleanly ==
    /\ \A i \in DOMAIN calls :
          (calls[i].op \in NeedMachine /\ calls[i].before.interpreter = None)
              => /\ calls[i].res = Err(NoInterpreter)
                 /\ calls[i].after = calls[i].before
                 /\ calls[i].engine_steps = 0
                 /\ calls[i].io_ops = 0
    /\ (/\ last.cmd \in {"UnsetInterpreter", "InfosInterpreter", "Infos", "Reset", "Step"}
        /\ last.pre.interpreter = None)
           => Session = last.pre

\* a Step command of at least one step, issued after the machine that ran the
\* loaded program was destroyed
C1_Witness ==
    /\ last.cmd = "Step"
    /\ last.arg[1] >= 1
    /\ last.pre.interpreter = None
    /\ last.pre.program_name # None
    /\ last.pre.statement # None
    /\ calls[1].res = Err(NoInterpreter)

----------------------------------------------------------------------------
(* C2 *)

\* C2: after an unset_interpreter that succeeded the machine is absent, the
\* last statement is none and the program name is none; on a session without
\* a machine it fails with NoInterpreter.
C2_DestroyClearsSession ==
    last.cmd = "UnsetInterpreter"
        => IF calls[1].res.ok
           THEN interpreter = None /\ statement = None /\ program_name = None
           ELSE calls[1].res = Err(NoInterpreter) /\ last.pre.interpreter = None

----------------------------------------------------------------------------
(* C3 *)

\* C3 as stated: when the k-th instruction of a steps(N) call, k <= N, is the
\* first to return the halt op-code, the executed count returned is k.
C3_ExecutedCountsTheHalt ==
    \A i \in StepsCalls : \A k \in 1..Requested(calls[i]) :
        HaltsFirstAt(EngineBefore(calls[i]), k) => Returned(calls[i]).executed = k

\* C3 amended: when the k-th instruction of a steps(N) call, k <= N, is the
\* first to return the halt op-code, the executed count returned is k - 1: the
\* halting instruction is not counted.
C3_ExecutedExcludesTheHalt ==
    \A i \in StepsCalls : \A k \in 1..Requested(calls[i]) :
        HaltsFirstAt(EngineBefore(calls[i]), k)
            => Returned(calls[i]).executed = k - 1

\* steps(4) on a machine whose 4th instruction is the first halt
C3_Witness ==
    \E i \in StepsCalls :
        /\ Requested(calls[i]) >= 4
        /\ HaltsFirstAt(EngineBefore(calls[i]), 4)
        /\ Returned(calls[i]).executed = 3

----------------------------------------------------------------------------
(* C4 *)

\* C4: when the k-th engine step of a steps(N) call, k <= N, is the first to
\* return the halt op-code, the call makes exactly k engine steps, whatever N.
C4_NoStepAfterHalt ==
    \A i \in StepsCalls : \A k \in 1..Requested(calls[i]) :
        HaltsFirstAt(EngineBefore(calls[i]), k)
            => /\ calls[i].engine_steps = k
               /\ Unwrap(calls[i].after.interpreter) = EngineAfter(EngineBefore(calls[i]), k)

\* a call that asked for more steps than it took to reach the halt
C4_Witness ==
    \E i \in StepsCalls : \E k \in 2..Requested(calls[i]) :
        /\ HaltsFirstAt(EngineBefore(calls[i]), k)
        /\ k < Requested(calls[i])
        /\ calls[i].engine_steps = k

----------------------------------------------------------------------------
(* C5 *)

\* C5: when none of the first N engine steps of a steps(N) call returns the
\* halt op-code, the call makes exactly N engine steps and returns executed = N.
C5_RunsAllWithoutHalt ==
    \A i \in StepsCalls :
        (\A j \in 1..Requested(calls[i]) :
              StatementOfStep(EngineBefore(calls[i]), j).op_code # HALT)
            => /\ calls[i].engine_steps = Requested(calls[i])
               /\ Returned(calls[i]).executed = Requested(calls[i])

\* steps(3) on a loaded, halt-free program
C5_Witness ==
    \E i \in StepsCalls :
        /\ Requested(calls[i]) = 3
        /\ calls[i].before.program_name # None
        /\ \A j \in 1..3 : StatementOfStep(EngineBefore(calls[i]), j).op_code # HALT
        /\ EngineBefore(calls[i]).memory # [a \in 1..EngineBefore(calls[i]).arch_length |-> NOP]
        /\ Returned(calls[i]).executed = 3

----------------------------------------------------------------------------
(* C6 *)

\* C6: steps(0) on an existing machine makes no engine step and returns
\* executed = 0, no statement, and the snapshot debug_infos gave before the
\* call; the engine is as it was.
C6_ZeroStepsIsIdentity ==
    \A i \in StepsCalls :
        Requested(calls[i]) = 0
            => /\ calls[i].engine_steps = 0
               /\ Returned(calls[i]).executed = 0
               /\ Returned(calls[i]).statement = None
               /\ Returned(calls[i]).debug = Unwrap(debug_infos(calls[i].before).res.val)
               /\ calls[i].after = calls[i].before

\* steps(0) on a machine that has run: its pc is no longer the reset pc
C6_Witness ==
    \E i \in StepsCalls :
        /\ Requested(calls[i]) = 0
        /\ EngineBefore(calls[i]).pc # 0
        /\ Returned(calls[i]).executed = 0

----------------------------------------------------------------------------
(* C7 *)

\* C7: a steps(N) call with N >= 1 whose first instruction halts returns
\* executed = 0 with the halt statement present; the statement returned is
\* none exactly when no engine step was made, which is exactly when N = 0.
C7_HaltDistinctFromNothingRun ==
    \A i \in StepsCalls :
        /\ (Requested(calls[i]) >= 1 /\ HaltsFirstAt(EngineBefore(calls[i]), 1))
               => /\ Returned(calls[i]).executed = 0
                  /\ Returned(calls[i]).statement # None
                  /\ Unwrap(Returned(calls[i]).statement).op_code = HALT
        /\ (Returned(calls[i]).statement = None) <=> (calls[i].engine_steps = 0)
        /\ (calls[i].engine_steps = 0) <=> (Requested(calls[i]) = 0)

\* a call of several steps stopped by a halt on its first instruction
C7_Witness ==
    \E i \in StepsCalls :
        /\ Requested(calls[i]) >= 2
        /\ HaltsFirstAt(EngineBefore(calls[i]), 1)
        /\ Returned(calls[i]).executed = 0
        /\ Returned(calls[i]).statement = Some(Statement(HALT, TRUE))

----------------------------------------------------------------------------
(* C8 *)

\* the last command loaded a program: one of its copy_program_and_reset
\* calls returned Ok
LoadSucceeded ==
    \E i \in DOMAIN calls : calls[i].op = "copy_program_and_reset" /\ calls[i].res.ok

\* C8: a Copy command changes the program name only when its load succeeds:
\* when the image cannot be read, or the load fails, the name is, once the
\* command has returned, as before.
C8_NameOnlyOnSuccess ==
    (last.cmd = "Copy" /\ ~panicked /\ ~LoadSucceeded)
        => program_name = last.pre.program_name

----------------------------------------------------------------------------
(* C9 *)

\* C9: a set_interpreter that succeeds on a session that has a machine with
\* a program loaded leaves a fresh engine of the new geometry, and nothing
\* of that program: no program name and no last statement.
C9_SecondCreateForgetsProgram ==
    (/\ last.cmd = "SetInterpreter"
     /\ calls[1].res.ok
     /\ last.pre.interpreter # None
     /\ last.pre.program_name # None)
        => /\ interpreter = Some(Unwrap(Interpreter_new(last.arg[1], last.arg[2]).val))
           /\ program_name = None
           /\ statement = None

----------------------------------------------------------------------------
(* C10 *)

\* C10: when Interpreter::new rejects the geometry, set_interpreter returns
\* InterpreterCreation and the session is unchanged: the machine it had is
\* still that machine, and a session without one still has none.
C10_RejectedCreateChangesNothing ==
    /\ \A i \in DOMAIN calls :
          (/\ calls[i].op = "set_interpreter"
           /\ ~Interpreter_new(Unwrap(calls[i].arg)[1], Unwrap(calls[i].arg)[2]).ok)
              => /\ calls[i].res = Err(InterpreterCreation)
                 /\ calls[i].after = calls[i].before
    /\ (last.cmd = "SetInterpreter" /\ ~calls[1].res.ok) => Session = last.pre

\* a rejected SetInterpreter on a session whose machine has a program loaded
\* and has run
C10_Witness ==
    /\ last.cmd = "SetInterpreter"
    /\ ~calls[1].res.ok
    /\ last.pre.interpreter # None
    /\ last.pre.program_name # None
    /\ Unwrap(last.pre.interpreter).pc # 0
    /\ interpreter = last.pre.interpreter

----------------------------------------------------------------------------
(* C11 *)

\* C11: no sequence of commands makes execute abort the process: every
\* failure is returned as an error and the session takes the next command.
C11_NoCommandAborts == ~panicked

----------------------------------------------------------------------------
(* C14 *)

\* the indices of the last command's calls of one method
CallsOf(op) == {i \in DOMAIN calls : calls[i].op = op}

\* C14: a Copy command on a session without a machine, whose image was read,
\* calls set_interpreter once, with the image's length and the default
\* width, between a first and a second (and last) copy_program_and_reset;
\* when the creation succeeds the session ends with a machine of that
\* geometry holding the image, reset.  No Copy command makes more than two
\* copy_program_and_reset calls.
C14_AutoCreateThenRetryOnce ==
    /\ last.cmd = "Copy" => Cardinality(CallsOf("copy_program_and_reset")) <= 2
    /\ (last.cmd = "Copy" /\ last.pre.interpreter = None /\ calls[1].res.ok)
          => LET program == Unwrap(calls[1].res.val)
             IN  /\ Cardinality(CallsOf("copy_program_and_reset")) = 2
                 /\ Cardinality(CallsOf("set_interpreter")) = 1
                 /\ \A s \in CallsOf("set_interpreter") :
                       /\ Unwrap(calls[s].arg) = <<Len(program), DEFAULT_ARCH_WIDTH>>
                       /\ \E a, b \in CallsOf("copy_program_and_reset") : a < s /\ s < b
                       /\ calls[s].res.ok
                             => /\ ~panicked
                                /\ interpreter =
                                      Some([arch_length |-> Len(program),
                                            arch_width |-> DEFAULT_ARCH_WIDTH,
                                            memory |-> program,
                                            pc |-> 0, sp |-> 0, nz |-> FALSE])

\* a Copy of a program of several bytes on a session without a machine
C14_Witness ==
    /\ last.cmd = "Copy"
    /\ last.pre.interpreter = None
    /\ calls[1].res.ok
    /\ Len(Unwrap(calls[1].res.val)) >= 3
    /\ interpreter # None
    /\ Unwrap(interpreter).memory = Unwrap(calls[1].res.val)

----------------------------------------------------------------------------
(* C15 *)

\* the geometry of the machine of a session that has one
Geometry(d) == <<Unwrap(d.interpreter).arch_length, Unwrap(d.interpreter).arch_width>>

\* C15: the session has no machine or one machine; it gains one only by a
\* set_interpreter that succeeded and loses one only by an unset_interpreter
\* that succeeded; a Copy, Reset, Step, Infos or InfosInterpreter command on a
\* session with a machine leaves a machine of the same geometry and calls
\* neither set_interpreter nor unset_interpreter.
C15_OnlyCreateAndDestroyChangeState ==
    /\ Len(interpreter) <= 1
    /\ (last.pre.interpreter = None /\ interpreter # None)
          => \E i \in CallsOf("set_interpreter") : calls[i].res.ok
    /\ (last.pre.interpreter # None /\ interpreter = None)
          => \E i \in CallsOf("unset_interpreter") : calls[i].res.ok
    /\ (/\ last.pre.interpreter # None
        /\ last.cmd \in {"Copy", "Reset", "Step", "Infos", "InfosInterpreter"})
          => /\ interpreter # None
             /\ Geometry(Session) = Geometry(last.pre)
             /\ CallsOf("set_interpreter") = {}
             /\ CallsOf("unset_interpreter") = {}

\* a Copy, on a machine shorter than the image, that loaded it
C15_Witness ==
    /\ last.cmd = "Copy"
    /\ last.pre.interpreter # None
    /\ LoadSucceeded
    /\ Len(Unwrap(calls[1].res.val)) > Unwrap(last.pre.interpreter).arch_length
    /\ Geometry(Session) = Geometry(last.pre)

----------------------------------------------------------------------------
(* C16 *)

\* C16: a SetInterpreter, Copy (loaded or not), Infos or InfosInterpreter
\* command leaves the held statement as it was.
C16_StatementKeptByOtherCommands ==
    last.cmd \in {"SetInterpreter", "Copy", "Infos", "InfosInterpreter"}
        => statement = last.pre.statement

\* a Copy that loaded a program on a session holding a statement
C16_Witness ==
    /\ last.cmd = "Copy"
    /\ LoadSucceeded
    /\ last.pre.statement # None
    /\ last.pre.statement # Some(Statement(RESET, TRUE))
    /\ statement = last.pre.statement

----------------------------------------------------------------------------
(* C18 *)

\* C18: after a Step command whose steps call succeeded, the held statement
\* is the one that call returned; Step(0) so replaces a held statement by
\* none.
C18_StepStoresReturnedStatement ==
    (last.cmd = "Step" /\ calls[1].res.ok)
        => /\ statement = Returned(calls[1]).statement
           /\ last.arg[1] = 0 => statement = None

\* Step(0) on a session that held a statement
C18_Witness ==
    /\ last.cmd = "Step"
    /\ calls[1].res.ok
    /\ last.arg[1] = 0
    /\ last.pre.statement # None
    /\ statement = None

----------------------------------------------------------------------------
(* C12 *)

\* the address a lane reaches i rows from its start, walking by `dir`
LaneAddress(from, i, dir, L) == (from + dir * i + i * L) % L

\* C12: for a memory of L >= 1 bytes and pc, sp inside it, display_infos
\* prints exactly `lines` rows without fault, and row i (from 0) shows
\* address (pc + i) mod L with offset i in the pc lane and address
\* (sp - i) mod L in the sp lane, each with the byte held there.
C12_WindowWalksBothLanes ==
    (render.done /\ Len(render.debug.memory) >= 1)
        => LET memory == render.debug.memory
               L == Len(memory)
               rows == render.out.rows
           IN  /\ ~render.out.panic
               /\ ~render.out.underflow
               /\ Len(rows) = lines
               /\ \A i \in 0..(lines - 1) :
                     /\ rows[i + 1].idx = i
                     /\ rows[i + 1].pc_addr = LaneAddress(render.debug.pc, i, 1, L)
                     /\ rows[i + 1].op_code = memory[rows[i + 1].pc_addr + 1]
                     /\ rows[i + 1].sp_addr = LaneAddress(render.debug.sp, i, -1, L)
                     /\ rows[i + 1].value = memory[rows[i + 1].sp_addr + 1]

\* a window higher than the memory, pc at the last address and sp at 0, over
\* a memory whose bytes differ
C12_Witness ==
    /\ render.done
    /\ Len(render.debug.memory) = 3
    /\ render.debug.pc = 2
    /\ render.debug.sp = 0
    /\ render.debug.memory = <<NOP, HALT, OUT>>
    /\ Len(render.out.rows) = lines
    /\ render.out.rows[2].pc_addr = 0
    /\ render.out.rows[2].sp_addr = 2

----------------------------------------------------------------------------
(* C13 *)

\* C13: for the empty memory display_infos prints no row, whatever pc and
\* sp, and without arithmetic fault: `memory.len() - sp - 1` does not go
\* below zero.
C13_EmptyMemoryNoFault ==
    (render.done /\ Len(render.debug.memory) = 0)
        => /\ render.out.rows = <<>>
           /\ ~render.out.underflow
           /\ ~render.out.panic

----------------------------------------------------------------------------
(* C17 *)

\* what holds all along a steps(N) call on an existing machine: at most N
\* engine steps, the engine being the one they lead to, 0 <= executed <= N,
\* and on return the snapshot of the engine after the last of them (the
\* result being the one the steps operator computes)
C17_WithinBound ==
    (run.pc # "idle" /\ run.start # None)
        => /\ run.engine_steps <= run.steps
           /\ interpreter = Some(EngineAfter(Unwrap(run.start), run.engine_steps))
           /\ 0 <= run.executed /\ run.executed <= run.steps
           /\ run.pc = "returned"
                 => /\ Unwrap(run.result).ok
                    /\ Unwrap(Unwrap(run.result).val).executed = run.executed
                    /\ Unwrap(Unwrap(run.result).val).debug =
                          Interpreter_debug_infos(
                              EngineAfter(Unwrap(run.start), run.engine_steps))
                    /\ Unwrap(run.result) =
                          steps([Debugger_new EXCEPT !.interpreter = run.start],
                                run.steps).res

\* C17: every steps(N) call returns, after at most N engine steps made one
\* after the other, with 0 <= executed <= N and the snapshot taken after the
\* last engine step.
C17_StepsTerminatesWithinBound == []C17_WithinBound /\ <>(run.pc = "returned")

\* a call of at least three steps that ran them all and returned
C17_Witness ==
    /\ run.pc = "returned"
    /\ run.start # None
    /\ run.steps >= 3
    /\ run.engine_steps = run.steps
    /\ run.executed = run.steps
    /\ interpreter # run.start

=============================================================================
